---- MODULE Spec2Model ----
(***************************************************************************)
(* Travel itinerary planner: the request interpreter of                    *)
(* itinerary_planner.py (extract_destinations, extract_duration,           *)
(* get_attractions) and the itinerary post-processor of app.py             *)
(* (remove_asterisks, generate_budget_section, convert_currency and the    *)
(* display of the itinerary in main), and one run of the page from the     *)
(* import of the planner to the footer, with get_weather.                  *)
(*                                                                         *)
(* A Python str is a sequence of one-character strings.  Indices handed to *)
(* the Py* operators are Python's (0-based, -1 for "not found").  The      *)
(* one-character strings "Eur", "Gbp", "Yen" and "Inr" stand for the       *)
(* currency signs of EUR, GBP, JPY and INR, and "Warn", "Info", "Ok",      *)
(* "Globe" and "Deg" for the signs of the page's messages and the degree   *)
(* sign.                                                                   *)
(***************************************************************************)
EXTENDS Integers, Sequences, FiniteSets, TLC

VARIABLES
    pc,                      \* position of the run
    nfrag,                   \* fragments of input received so far
    itinerary,               \* text returned by planner.generate_itinerary
    preferred_currency,      \* the currency selectbox
    include_budget,          \* the "Include budget estimate" checkbox
    itinerary_no_asterisks,  \* app.py line 197
    shown,                   \* texts handed to st.markdown in the itinerary column, in order
    budget_once,             \* generate_budget_section(itinerary, c)
    budget_twice,            \* generate_budget_section(budget_once, c)
    user_request,            \* the travel request text
    duration,                \* extract_duration(user_request): <<>> is None, <<n>> is n
    destinations,            \* extract_destinations(user_request)
    response_text,           \* response.text of the generative service in get_attractions
    attractions,             \* the value get_attractions returns
    google_api_key,          \* os.getenv("GOOGLE_API_KEY"): <<>> when unset or empty
    weather_api_key,         \* os.getenv("OPENWEATHERMAP_API_KEY"): <<>> when unset or empty
    include_weather,         \* the "Include weather information" checkbox
    include_attractions,     \* the "Include top attractions" checkbox
    weather_info,            \* the value get_weather returns
    requests_sent,           \* requests.get calls made to the weather service
    exc,                     \* message of the exception in flight, <<>> when none is
    ui                       \* what the page shows, in the order of the st.* calls

vars == <<pc, nfrag, itinerary, preferred_currency, include_budget,
          itinerary_no_asterisks, shown, budget_once, budget_twice,
          user_request, duration, destinations, response_text, attractions,
          google_api_key, weather_api_key, include_weather, include_attractions,
          weather_info, requests_sent, exc, ui>>

\* the variables of a run of the whole page
run_vars == <<google_api_key, weather_api_key, include_weather, include_attractions,
              weather_info, requests_sent, exc, ui>>

(***************************************************************************)
(* Bounds of the inputs.                                                   *)
(***************************************************************************)
MaxDocFrags == 3
MaxMoneyFrags == 2
MaxReqFrags == 3
MaxRespFrags == 3

(***************************************************************************)
(* Characters and Python's str methods.                                    *)
(***************************************************************************)
DigitChars == {"0", "1", "2", "3", "4", "5", "6", "7", "8", "9"}

DigitValue == ("0" :> 0) @@ ("1" :> 1) @@ ("2" :> 2) @@ ("3" :> 3) @@ ("4" :> 4) @@
              ("5" :> 5) @@ ("6" :> 6) @@ ("7" :> 7) @@ ("8" :> 8) @@ ("9" :> 9)

DigitChar == <<"0", "1", "2", "3", "4", "5", "6", "7", "8", "9">>

SpaceChars == {" ", "\n", "\t"}

LowerMap == ("A" :> "a") @@ ("B" :> "b") @@ ("C" :> "c") @@ ("D" :> "d") @@ ("E" :> "e") @@
            ("F" :> "f") @@ ("G" :> "g") @@ ("H" :> "h") @@ ("I" :> "i") @@ ("J" :> "j") @@
            ("K" :> "k") @@ ("L" :> "l") @@ ("M" :> "m") @@ ("N" :> "n") @@ ("O" :> "o") @@
            ("P" :> "p") @@ ("Q" :> "q") @@ ("R" :> "r") @@ ("S" :> "s") @@ ("T" :> "t") @@
            ("U" :> "u") @@ ("V" :> "v") @@ ("W" :> "w") @@ ("X" :> "x") @@ ("Y" :> "y") @@
            ("Z" :> "z")

UpperChars == DOMAIN LowerMap

LowerChars == {LowerMap[c] : c \in UpperChars}

IsDigit(c) == c \in DigitChars

IsSpace(c) == c \in SpaceChars

LowerChar(c) == IF c \in UpperChars THEN LowerMap[c] ELSE c

\* str.lower()
PyLower(s) == [i \in 1..Len(s) |-> LowerChar(s[i])]

\* whether pat stands in s at the 1-based position i
MatchesAt(s, pat, i) ==
    /\ i >= 1
    /\ i + Len(pat) - 1 <= Len(s)
    /\ \A k \in 1..Len(pat) : s[i + k - 1] = pat[k]

\* the least element of a non-empty set of integers
Least(S) == CHOOSE x \in S : \A y \in S : x <= y

\* least 1-based position >= i where pat stands in s, 0 when there is none
FindFrom(s, pat, i) ==
    LET at == {j \in i..(Len(s) - Len(pat) + 1) : MatchesAt(s, pat, j)}
    IN  IF at = {} THEN 0 ELSE Least(at)

\* str.find(pat): 0-based index of the first occurrence, -1 when there is none
PyFind(s, pat) == FindFrom(s, pat, 1) - 1

\* pat in s
PyContains(s, pat) == PyFind(s, pat) >= 0

\* s.startswith(pat)
PyStartsWith(s, pat) == MatchesAt(s, pat, 1)

\* s[a:b] for 0 <= a, 0 <= b
PySlice(s, a, b) == SubSeq(s, a + 1, IF b > Len(s) THEN Len(s) ELSE b)

\* s[:b]
PyPrefix(s, b) == PySlice(s, 0, b)

\* s[a:]
PySuffix(s, a) == PySlice(s, a, Len(s))

RECURSIVE ReplaceFrom(_, _, _, _)
\* str.replace(old, new) for a non-empty old: the occurrences of old, found from the
\* left and not overlapping, each replaced by new
ReplaceFrom(s, old, new, i) ==
    LET j == FindFrom(s, old, i)
    IN  IF j = 0 THEN SubSeq(s, i, Len(s))
        ELSE SubSeq(s, i, j - 1) \o new \o ReplaceFrom(s, old, new, j + Len(old))

PyReplace(s, old, new) == ReplaceFrom(s, old, new, 1)

RECURSIVE SplitFrom(_, _, _)
\* the pieces of s, from position i on, between the occurrences of the non-empty
\* separator sep
SplitFrom(s, sep, i) ==
    LET j == FindFrom(s, sep, i)
    IN  IF j = 0 THEN <<SubSeq(s, i, Len(s))>>
        ELSE <<SubSeq(s, i, j - 1)>> \o SplitFrom(s, sep, j + Len(sep))

\* str.split(sep): a record [err, parts], err the message of the ValueError the
\* empty separator raises
PySplit(s, sep) ==
    IF sep = <<>> THEN [err |-> "empty separator", parts |-> <<>>]
    ELSE [err |-> "", parts |-> SplitFrom(s, sep, 1)]

\* the greatest element of a non-empty set of integers
Greatest(S) == CHOOSE x \in S : \A y \in S : x >= y

\* last position of the longest run of characters of class that starts at i (i - 1
\* when s[i] is not in class)
SkipWhile(s, class, i) ==
    LET stops == {j \in i..Len(s) : s[j] \notin class}
    IN  IF stops = {} THEN (IF i > Len(s) THEN i - 1 ELSE Len(s)) ELSE Least(stops) - 1

\* first position of the longest run of characters of class that ends at i (i + 1
\* when s[i] is not in class)
SkipBack(s, class, i) ==
    LET stops == {j \in 1..i : s[j] \notin class}
    IN  IF stops = {} THEN (IF i < 1 THEN i + 1 ELSE 1) ELSE Greatest(stops) + 1

\* str.strip()
PyStrip(s) ==
    LET a == SkipWhile(s, SpaceChars, 1) + 1
        b == SkipBack(s, SpaceChars, Len(s)) - 1
    IN  IF a > b THEN <<>> ELSE SubSeq(s, a, b)

RECURSIVE WordsFrom(_, _)
\* str.split() without a separator: the runs of non-whitespace characters
WordsFrom(s, i) ==
    LET a == SkipWhile(s, SpaceChars, i) + 1
    IN  IF a > Len(s) THEN <<>>
        ELSE LET nonspace == {s[k] : k \in a..Len(s)} \ SpaceChars
                 b == SkipWhile(s, nonspace, a)
             IN  <<SubSeq(s, a, b)>> \o WordsFrom(s, b + 1)

PyWords(s) == WordsFrom(s, 1)

RECURSIVE DigitsValue(_, _)
\* int() of the decimal digits s[1..n]
DigitsValue(s, n) == IF n = 0 THEN 0 ELSE DigitsValue(s, n - 1) * 10 + DigitValue[s[n]]

\* int(s) for a string of decimal digits
PyInt(s) == DigitsValue(s, Len(s))

RECURSIVE IntDigits(_)
\* the decimal digits of n >= 0
IntDigits(n) == IF n < 10 THEN <<DigitChar[n + 1]>> ELSE IntDigits(n \div 10) \o <<DigitChar[(n % 10) + 1]>>

RECURSIVE Grouped(_)
\* the format specifier ",": a comma before every group of three digits
Grouped(ds) ==
    IF Len(ds) <= 3 THEN ds
    ELSE Grouped(SubSeq(ds, 1, Len(ds) - 3)) \o <<",">> \o SubSeq(ds, Len(ds) - 2, Len(ds))

(***************************************************************************)
(* app.py: the currency table and convert_currency.                        *)
(***************************************************************************)
Currencies == {"USD", "EUR", "GBP", "JPY", "INR", "AUD", "CAD"}

\* exchange_rates, in hundredths
RateHundredths == [c \in Currencies |->
    CASE c = "USD" -> 100 [] c = "EUR" -> 91 [] c = "GBP" -> 78 [] c = "JPY" -> 15123
      [] c = "INR" -> 8342 [] c = "AUD" -> 149 [] c = "CAD" -> 135]

currency_symbols == [c \in Currencies |->
    CASE c = "USD" -> <<"$">> [] c = "EUR" -> <<"Eur">> [] c = "GBP" -> <<"Gbp">> [] c = "JPY" -> <<"Yen">>
      [] c = "INR" -> <<"Inr">> [] c = "AUD" -> <<"A","$">> [] c = "CAD" -> <<"C","$">>]

\* float(clean_amount) for digits[.digits]: the amount is num / scale dollars
ParseAmount(clean_amount) ==
    LET dot == PyFind(clean_amount, <<".">>)
    IN  IF dot < 0 THEN [num |-> PyInt(clean_amount), scale |-> 1]
        ELSE LET frac == PySuffix(clean_amount, dot + 1)
             IN  [num |-> PyInt(PyPrefix(clean_amount, dot) \o frac),
                  scale |-> 10 ^ Len(frac)]

\* round(num * rate / div) to the nearest integer, the quotient split so that no
\* product leaves 32 bits.  A decimal tie is rounded to even; in the code the
\* binary error of the double product decides a tie, and no amount the fragments
\* below can form is one.
ScaledRound(num, rate, div) ==
    LET whole == (num \div div) * rate
        part  == (num % div) * rate
        q     == part \div div
        r     == part % div
    IN  whole + q + (IF 2 * r > div \/ (2 * r = div /\ q % 2 = 1) THEN 1 ELSE 0)

\* f"{x:,.2f}" of x = cents / 100
FormatTwo(cents) ==
    LET frac == cents % 100
    IN  Grouped(IntDigits(cents \div 100)) \o <<".">> \o <<DigitChar[(frac \div 10) + 1], DigitChar[(frac % 10) + 1]>>

\* f"{x:,.0f}" of the integer x
FormatZero(units) == Grouped(IntDigits(units))

convert_currency(amount_usd, target_currency) ==
    IF target_currency = "USD"
    THEN currency_symbols[target_currency]
           \o FormatTwo(ScaledRound(amount_usd.num, 100, amount_usd.scale))
    ELSE IF target_currency \in {"JPY", "INR"}
    THEN currency_symbols[target_currency]
           \o FormatZero(ScaledRound(amount_usd.num, RateHundredths[target_currency],
                                     100 * amount_usd.scale))
    ELSE currency_symbols[target_currency]
           \o FormatTwo(ScaledRound(amount_usd.num, RateHundredths[target_currency],
                                    amount_usd.scale))

(***************************************************************************)
(* app.py: remove_asterisks and generate_budget_section.                   *)
(***************************************************************************)
\* a replacement that leaves one asterisk of each pair
remove_asterisks_leaving_one(text) == PyReplace(text, <<"*","*">>, <<"*">>)

remove_asterisks(text) == PyReplace(text, <<"*","*">>, <<>>)

\* the test of line 69 without its heading marker
IsBudgetHeading_word_only(line) == PyContains(PyLower(line), <<"b","u","d","g","e","t">>)

\* line 69: "budget" in line.lower() and "#" in line
IsBudgetHeading(line) == PyContains(PyLower(line), <<"b","u","d","g","e","t">>) /\ PyContains(line, <<"#">>)

RECURSIVE FirstBudgetLine(_, _)
\* the for loop of lines 68-76: the first i (1-based) whose line is a budget
\* heading, 0 when the loop ends without one
FirstBudgetLine(lines, i) ==
    IF i > Len(lines) THEN 0
    ELSE IF IsBudgetHeading(lines[i]) THEN i
    ELSE FirstBudgetLine(lines, i + 1)

RECURSIVE CollectBody(_, _)
\* the while loop of lines 73-75, from line j (1-based)
CollectBody(lines, j) ==
    IF j <= Len(lines) /\ ~PyStartsWith(lines[j], <<"#">>)
    THEN lines[j] \o <<"\n">> \o CollectBody(lines, j + 1)
    ELSE <<>>

\* lines 64-79: budget_found and budget_section
LocateBudgetSpan(text) ==
    LET lines == PySplit(text, <<"\n">>).parts
        i     == FirstBudgetLine(lines, 1)
    IN  IF i = 0 THEN [budget_found |-> FALSE, budget_section |-> remove_asterisks(<<>>)]
        ELSE [budget_found |-> TRUE,
              budget_section |->
                  remove_asterisks(lines[i] \o <<"\n">> \o CollectBody(lines, i + 1))]

\* one match of \$(\d+(?:,\d+)?(?:\.\d+)?) that begins at i: the position of its
\* last character, 0 when there is no match at i
AmountEndAt(s, i) ==
    IF ~(i < Len(s) /\ s[i] = "$" /\ IsDigit(s[i + 1])) THEN 0
    ELSE LET e1 == SkipWhile(s, DigitChars, i + 1)
             e2 == IF e1 + 2 <= Len(s) /\ s[e1 + 1] = "," /\ IsDigit(s[e1 + 2])
                   THEN SkipWhile(s, DigitChars, e1 + 2) ELSE e1
             e3 == IF e2 + 2 <= Len(s) /\ s[e2 + 1] = "." /\ IsDigit(s[e2 + 2])
                   THEN SkipWhile(s, DigitChars, e2 + 2) ELSE e2
         IN  e3

RECURSIVE DollarAmountsFrom(_, _)
\* re.findall of line 86: the captured groups (the literals without their $) of the
\* matches, found from the left and not overlapping
DollarAmountsFrom(s, i) ==
    LET at == {j \in i..Len(s) : AmountEndAt(s, j) # 0}
    IN  IF at = {} THEN <<>>
        ELSE LET b == Least(at)
                 e == AmountEndAt(s, b)
             IN  <<SubSeq(s, b + 1, e)>> \o DollarAmountsFrom(s, e + 1)

DollarAmounts(s) == DollarAmountsFrom(s, 1)

\* the body of the for loop, lines 89-97, for one amount_str; float() of a literal
\* the pattern matched never raises
AnnotateAmount(enhanced_budget, amount_str, currency) ==
    LET clean_amount == PyReplace(amount_str, <<",">>, <<>>)
        converted    == convert_currency(ParseAmount(clean_amount), currency)
    IN  PyReplace(enhanced_budget,
                  <<"$">> \o amount_str,
                  <<"$">> \o amount_str \o <<" ","(">> \o converted \o <<")">>)

RECURSIVE AnnotateAll(_, _, _, _)
\* the for loop of lines 88-99 over dollar_amounts, from its k-th element
AnnotateAll(enhanced_budget, dollar_amounts, k, currency) ==
    IF k > Len(dollar_amounts) THEN enhanced_budget
    ELSE AnnotateAll(AnnotateAmount(enhanced_budget, dollar_amounts[k], currency),
                     dollar_amounts, k + 1, currency)

\* lines 81-101 on a located budget section
Annotate(budget_section, currency) ==
    AnnotateAll(budget_section, DollarAmounts(budget_section), 1, currency)

generate_budget_section(text, currency) ==
    LET span == LocateBudgetSpan(text)
    IN  IF span.budget_found /\ currency # "USD"
        THEN Annotate(span.budget_section, currency)
        ELSE span.budget_section

\* lines 236-254 of main: the texts st.markdown receives in the itinerary column
DisplayParts(no_asterisks, currency, with_budget) ==
    IF currency # "USD" /\ with_budget
    THEN LET budget_section == generate_budget_section(no_asterisks, currency)
         IN  IF budget_section # <<>>
             THEN LET budget_index == PyFind(PyLower(no_asterisks), <<"b","u","d","g","e","t">>)
                  IN  IF budget_index > 0
                      THEN LET next_section ==
                                   PyFind(PySuffix(no_asterisks, budget_index), <<"\n","#">>)
                           IN  <<PyPrefix(no_asterisks, budget_index), budget_section>>
                               \o (IF next_section > 0
                                   THEN <<PySuffix(no_asterisks, budget_index + next_section)>>
                                   ELSE <<>>)
                      ELSE <<no_asterisks>>
             ELSE <<no_asterisks>>
    ELSE <<no_asterisks>>

(***************************************************************************)
(* The itinerary post-processor: the generative service returns a draft,   *)
(* main strips its markup and displays it.                                 *)
(***************************************************************************)
\* pieces of text a draft is made of
DocFragments == {
    <<"#","#"," ","B","u","d","g","e","t","\n">>,
    <<"T","o","t","a","l",":"," ","$","5","\n">>,
    <<"#","#"," ","T","i","p","s","\n">>,
    <<"a"," ","b","u","d","g","e","t"," ","t","r","i","p","\n">>,
    <<"B","u","d","g","e","t"," ","#","1","\n">>,
    <<"$","3">>,
    <<"*">>,
    <<"*","*">> }

\* no run of the page has begun
Unstarted ==
    /\ google_api_key = <<>> /\ weather_api_key = <<>>
    /\ include_weather = TRUE /\ include_attractions = TRUE
    /\ weather_info = <<>> /\ requests_sent = 0
    /\ exc = <<>> /\ ui = <<>>

Idle ==
    /\ budget_once = <<>> /\ budget_twice = <<>>
    /\ user_request = <<>> /\ duration = <<>> /\ destinations = <<>>
    /\ response_text = <<>> /\ attractions = <<>>

InitPost ==
    /\ pc = "draft"
    /\ nfrag = 0
    /\ itinerary = <<>>
    /\ preferred_currency = "USD"
    /\ include_budget = TRUE
    /\ itinerary_no_asterisks = <<>>
    /\ shown = <<>>
    /\ Idle
    /\ Unstarted

\* the generative service produces the next piece of the draft
DraftAppend ==
    /\ pc = "draft"
    /\ nfrag < MaxDocFrags
    /\ \E f \in DocFragments : itinerary' = itinerary \o f
    /\ nfrag' = nfrag + 1
    /\ UNCHANGED <<pc, preferred_currency, include_budget, itinerary_no_asterisks, shown,
                   budget_once, budget_twice, user_request, duration, destinations,
                   response_text, attractions>>
    /\ UNCHANGED run_vars

\* line 197, with the options of the "Additional Options" expander as they stand
\* when the button is pressed
StripMarkup ==
    /\ pc = "draft"
    /\ \E c \in Currencies, b \in BOOLEAN :
          /\ preferred_currency' = c
          /\ include_budget' = b
    /\ itinerary_no_asterisks' = remove_asterisks(itinerary)
    /\ pc' = "stripped"
    /\ UNCHANGED <<nfrag, itinerary, shown, budget_once, budget_twice, user_request,
                   duration, destinations, response_text, attractions>>
    /\ UNCHANGED run_vars

\* lines 232-254
ShowItinerary ==
    /\ pc = "stripped"
    /\ shown' = DisplayParts(itinerary_no_asterisks, preferred_currency, include_budget)
    /\ pc' = "shown"
    /\ UNCHANGED <<nfrag, itinerary, preferred_currency, include_budget,
                   itinerary_no_asterisks, budget_once, budget_twice, user_request,
                   duration, destinations, response_text, attractions>>
    /\ UNCHANGED run_vars

\* generate_budget_section on its own, handed the draft as received
LocateBudget ==
    /\ pc = "draft"
    /\ \E c \in Currencies :
          /\ preferred_currency' = c
          /\ budget_once' = generate_budget_section(itinerary, c)
    /\ pc' = "located"
    /\ UNCHANGED <<nfrag, itinerary, include_budget, itinerary_no_asterisks, shown,
                   budget_twice, user_request, duration, destinations, response_text,
                   attractions>>
    /\ UNCHANGED run_vars

NextPost == DraftAppend \/ StripMarkup \/ ShowItinerary \/ LocateBudget

SpecPost == InitPost /\ [][NextPost]_vars

(***************************************************************************)
(* The currency annotator on its own: a budget section holding dollar      *)
(* amounts is annotated, and the result annotated again.                   *)
(***************************************************************************)
\* pieces of text the body of a budget section is made of
MoneyFragments == {
    <<"$","5"," ">>,
    <<"$","1","0"," ">>,
    <<"$","1","0","0">>,
    <<"$","1",",","2","0","0">>,
    <<",","0","0","0">>,
    <<".","2">>,
    <<" ","f","o","r"," ","f","l","i","g","h","t","s"," ">> }

BudgetHeading == <<"#","#"," ","B","u","d","g","e","t","\n">>

InitMoney ==
    /\ pc = "span"
    /\ nfrag = 0
    /\ itinerary = BudgetHeading
    /\ preferred_currency = "USD"
    /\ include_budget = TRUE
    /\ itinerary_no_asterisks = <<>>
    /\ shown = <<>>
    /\ Idle
    /\ Unstarted

SpanAppend ==
    /\ pc = "span"
    /\ nfrag < MaxMoneyFrags
    /\ \E f \in MoneyFragments : itinerary' = itinerary \o f
    /\ nfrag' = nfrag + 1
    /\ UNCHANGED <<pc, preferred_currency, include_budget, itinerary_no_asterisks, shown,
                   budget_once, budget_twice, user_request, duration, destinations,
                   response_text, attractions>>
    /\ UNCHANGED run_vars

\* line 238 for the selected currency
AnnotateOnce ==
    /\ pc = "span"
    /\ \E c \in Currencies :
          /\ preferred_currency' = c
          /\ budget_once' = generate_budget_section(itinerary, c)
    /\ pc' = "once"
    /\ UNCHANGED <<nfrag, itinerary, include_budget, itinerary_no_asterisks, shown,
                   budget_twice, user_request, duration, destinations, response_text,
                   attractions>>
    /\ UNCHANGED run_vars

\* the annotated section handed to generate_budget_section again
AnnotateTwice ==
    /\ pc = "once"
    /\ budget_twice' = generate_budget_section(budget_once, preferred_currency)
    /\ pc' = "twice"
    /\ UNCHANGED <<nfrag, itinerary, preferred_currency, include_budget,
                   itinerary_no_asterisks, shown, budget_once, user_request, duration,
                   destinations, response_text, attractions>>
    /\ UNCHANGED run_vars

NextMoney == SpanAppend \/ AnnotateOnce \/ AnnotateTwice

SpecMoney == InitMoney /\ [][NextMoney]_vars

(***************************************************************************)
(* itinerary_planner.py: extract_duration.                                 *)
(***************************************************************************)
\* one match of (\d+)\s+<unit>s? under re.IGNORECASE that begins at i, unit in lower
\* case and ls the lower-cased s: [d |-> last digit, e |-> last character], e = 0
\* when there is no match at i
DurationMatchAt(s, ls, unit, i) ==
    IF ~(i <= Len(s) /\ IsDigit(s[i])) THEN [d |-> 0, e |-> 0]
    ELSE LET d == SkipWhile(s, DigitChars, i)
             w == SkipWhile(s, SpaceChars, d + 1)
         IN  IF w > d /\ MatchesAt(ls, unit, w + 1)
             THEN LET u == w + Len(unit)
                  IN  [d |-> d, e |-> IF u < Len(s) /\ ls[u + 1] = "s" THEN u + 1 ELSE u]
             ELSE [d |-> 0, e |-> 0]

\* re.search(pattern, text, re.IGNORECASE): the leftmost match,
\* [b |-> first character, d |-> last digit, e |-> last character], b = 0 for None
DurationSearch(s, ls, unit) ==
    LET at == {j \in 1..Len(s) : DurationMatchAt(s, ls, unit, j).e # 0}
    IN  IF at = {} THEN [b |-> 0, d |-> 0, e |-> 0]
        ELSE LET b == Least(at)
                 m == DurationMatchAt(s, ls, unit, b)
             IN  [b |-> b, d |-> m.d, e |-> m.e]

\* the list with the night pattern before the week pattern
duration_patterns_night_before_week == << <<"d","a","y">>, <<"n","i","g","h","t">>, <<"w","e","e","k">> >>

\* the units of duration_patterns, in the order of the list
duration_patterns == << <<"d","a","y">>, <<"w","e","e","k">>, <<"n","i","g","h","t">> >>

RECURSIVE DurationFrom(_, _)
\* the for loop of lines 222-231 from the k-th pattern; <<>> is None
DurationFrom(text, k) ==
    IF k > Len(duration_patterns) THEN <<>>
    ELSE LET m == DurationSearch(text, PyLower(text), duration_patterns[k])
         IN  IF m.b = 0 THEN DurationFrom(text, k + 1)
             ELSE LET number == PyInt(SubSeq(text, m.b, m.d))
                      words  == PyWords(SubSeq(text, m.b, m.e))
                      unit   == PyLower(words[Len(words)])
                  IN  IF PyContains(unit, <<"w","e","e","k">>) THEN <<number * 7>> ELSE <<number>>

\* the loop begun at the week pattern
extract_duration_from_week(text) == DurationFrom(text, 2)

extract_duration(text) == DurationFrom(text, 1)

(***************************************************************************)
(* itinerary_planner.py: extract_destinations.                             *)
(***************************************************************************)
travel_verbs == << <<"v","i","s","i","t">>, <<"t","r","a","v","e","l"," ","t","o">>, <<"g","o"," ","t","o">>, <<"e","x","p","l","o","r","e">>, <<"s","e","e">>,
                   <<"v","a","c","a","t","i","o","n"," ","i","n">>, <<"h","o","l","i","d","a","y"," ","i","n">>, <<"t","r","i","p"," ","t","o">> >>

\* the class [A-Za-z\s,]
DestChars == UpperChars \cup LowerChars \cup SpaceChars \cup {","}

\* one match of <verb>\s+([A-Za-z\s,]+) under re.IGNORECASE that begins at i:
\* [a, b |-> the captured group s[a..b], e |-> last character], e = 0 when there is
\* no match at i.  \s+ takes the whole run of whitespace; when no character of the
\* class follows it, it gives its last character back to the group.
VerbMatchAt(s, ls, verb, i) ==
    LET p == i + Len(verb)
    IN  IF ~(MatchesAt(ls, verb, i) /\ p <= Len(s) /\ IsSpace(s[p]))
        THEN [a |-> 0, b |-> 0, e |-> 0]
        ELSE LET w == SkipWhile(s, SpaceChars, p)
                 r == SkipWhile(s, DestChars, w + 1)
             IN  IF r > w THEN [a |-> w + 1, b |-> r, e |-> r]
                 ELSE IF w > p THEN [a |-> w, b |-> w, e |-> w]
                 ELSE [a |-> 0, b |-> 0, e |-> 0]

RECURSIVE VerbFindAll(_, _, _, _)
\* re.findall(pattern, text, re.IGNORECASE): the captured groups of the matches,
\* found from the left and not overlapping
VerbFindAll(s, ls, verb, i) ==
    LET at == {j \in i..Len(s) : VerbMatchAt(s, ls, verb, j).e # 0}
    IN  IF at = {} THEN <<>>
        ELSE LET m == VerbMatchAt(s, ls, verb, Least(at))
             IN  <<SubSeq(s, m.a, m.b)>> \o VerbFindAll(s, ls, verb, m.e + 1)

\* lines 191-193: strip, then re.sub(r'[,.!?]+$', '', dest)
CleanDestination(match) ==
    LET dest == PyStrip(match)
    IN  SubSeq(dest, 1, SkipBack(dest, {",", ".", "!", "?"}, Len(dest)) - 1)

RECURSIVE KeepDestinations(_, _)
\* the inner for loop, lines 189-195, from the k-th match
KeepDestinations(matches, k) ==
    IF k > Len(matches) THEN <<>>
    ELSE LET dest == CleanDestination(matches[k])
         IN  (IF dest # <<>> /\ Len(dest) > 2 THEN <<dest>> ELSE <<>>)
             \o KeepDestinations(matches, k + 1)

RECURSIVE VerbDestinations(_, _)
\* the for loop of lines 186-195 from the k-th verb
VerbDestinations(text, k) ==
    IF k > Len(travel_verbs) THEN <<>>
    ELSE KeepDestinations(VerbFindAll(text, PyLower(text), travel_verbs[k], 1), 1)
         \o VerbDestinations(text, k + 1)

StopWords == { <<"p","l","a","n">>, <<"t","r","i","p">>, <<"d","a","y">>, <<"w","e","e","k">>, <<"i","t","i","n","e","r","a","r","y">> }

RECURSIVE CapitalizedWords(_, _)
\* the for loop of lines 202-204 from the k-th word
CapitalizedWords(words, k) ==
    IF k > Len(words) THEN <<>>
    ELSE LET word == words[k]
         IN  (IF word[1] \in UpperChars /\ Len(word) > 3 /\ PyLower(word) \notin StopWords
              THEN <<word>> ELSE <<>>)
             \o CapitalizedWords(words, k + 1)

RECURSIVE Unique(_, _)
\* lines 207-210: seen, followed by the elements of dests it lacks, each once
Unique(dests, seen) ==
    IF dests = <<>> THEN seen
    ELSE Unique(Tail(dests),
                IF \E j \in 1..Len(seen) : seen[j] = Head(dests)
                THEN seen ELSE Append(seen, Head(dests)))

extract_destinations(text) ==
    LET by_verb == VerbDestinations(text, 1)
    IN  Unique(IF by_verb = <<>> THEN CapitalizedWords(PyWords(text), 1) ELSE by_verb, <<>>)

(***************************************************************************)
(* The request interpreter: a request is typed, then main extracts the     *)
(* destinations (line 203) and the duration (line 204) for the summary.    *)
(***************************************************************************)
\* examples[0] of app.py without its last words, and examples[1]
ParisRequest == <<"I"," ","w","a","n","t"," ","t","o"," ","v","i","s","i","t"," ","P","a","r","i","s"," ","f","o","r"," ","5"," ","d","a","y","s"," ","i","n"," ","J","u","n","e">>

TokyoRequest == <<"P","l","a","n"," ","a"," ","7","-","d","a","y"," ","t","r","i","p"," ","t","o"," ","T","o","k","y","o"," ","a","n","d"," ","K","y","o","t","o"," ","i","n"," ","a","u","t","u","m","n"," ","f","o","r"," ","a"," ","s","o","l","o"," ","t","r","a","v","e","l","e","r">>

\* pieces of text a request is made of
RequestFragments == {
    ParisRequest,
    TokyoRequest,
    <<"2"," ","w","e","e","k","s">>,
    <<"3"," ","d","a","y","s">>,
    <<"4"," ","n","i","g","h","t","s">>,
    <<"1"," ","w","e","e","k"," ">>,
    <<"1">>,
    <<" ">>,
    <<"."," ","T","h","e","n"," ">>,
    <<"V","i","s","i","t"," ","R","o","m","e",","," ">> }

InitRequest ==
    /\ pc = "request"
    /\ nfrag = 0
    /\ user_request = <<>>
    /\ duration = <<>>
    /\ destinations = <<>>
    /\ itinerary = <<>>
    /\ preferred_currency = "USD"
    /\ include_budget = TRUE
    /\ itinerary_no_asterisks = <<>>
    /\ shown = <<>>
    /\ budget_once = <<>> /\ budget_twice = <<>>
    /\ response_text = <<>> /\ attractions = <<>>
    /\ Unstarted

RequestAppend ==
    /\ pc = "request"
    /\ nfrag < MaxReqFrags
    /\ \E f \in RequestFragments : user_request' = user_request \o f
    /\ nfrag' = nfrag + 1
    /\ UNCHANGED <<pc, itinerary, preferred_currency, include_budget,
                   itinerary_no_asterisks, shown, budget_once, budget_twice, duration,
                   destinations, response_text, attractions>>
    /\ UNCHANGED run_vars

\* line 203; line 190 lets only a non-empty request through
ExtractDestinations ==
    /\ pc = "request"
    /\ user_request # <<>>
    /\ destinations' = extract_destinations(user_request)
    /\ pc' = "destinations"
    /\ UNCHANGED <<nfrag, itinerary, preferred_currency, include_budget,
                   itinerary_no_asterisks, shown, budget_once, budget_twice, user_request,
                   duration, response_text, attractions>>
    /\ UNCHANGED run_vars

\* line 204
ExtractDuration ==
    /\ pc = "destinations"
    /\ duration' = extract_duration(user_request)
    /\ pc' = "duration"
    /\ UNCHANGED <<nfrag, itinerary, preferred_currency, include_budget,
                   itinerary_no_asterisks, shown, budget_once, budget_twice, user_request,
                   destinations, response_text, attractions>>
    /\ UNCHANGED run_vars

NextRequest == RequestAppend \/ ExtractDestinations \/ ExtractDuration

SpecRequest == InitRequest /\ [][NextRequest]_vars

(***************************************************************************)
(* itinerary_planner.py: get_attractions.  The value it returns is a       *)
(* record: kind "parsed" with the text json.loads accepted, kind           *)
(* "fallback" with the names of the two placeholder attractions, or kind   *)
(* "error" with the message string.                                        *)
(***************************************************************************)
\* first position >= i that holds no whitespace
SkipSpace(s, i) == SkipWhile(s, SpaceChars, i) + 1

RECURSIVE JsonValueEnd(_, _)
RECURSIVE JsonElementsEnd(_, _)
\* json.loads on texts of digits, brackets, commas and whitespace: the last
\* character of the JSON value that begins at or after i, 0 when there is none
JsonValueEnd(s, i) ==
    LET a == SkipSpace(s, i)
    IN  IF a > Len(s) THEN 0
        ELSE IF s[a] = "0" THEN a
        ELSE IF IsDigit(s[a]) THEN SkipWhile(s, DigitChars, a)
        ELSE IF s[a] = "["
             THEN LET b == SkipSpace(s, a + 1)
                  IN  IF b <= Len(s) /\ s[b] = "]" THEN b ELSE JsonElementsEnd(s, a + 1)
        ELSE 0

\* the rest of an array whose next element begins at or after i: the position of
\* its closing bracket, 0 when the text is malformed
JsonElementsEnd(s, i) ==
    LET e == JsonValueEnd(s, i)
    IN  IF e = 0 THEN 0
        ELSE LET c == SkipSpace(s, e + 1)
             IN  IF c > Len(s) THEN 0
                 ELSE IF s[c] = "]" THEN c
                 ELSE IF s[c] = "," THEN JsonElementsEnd(s, c + 1)
                 ELSE 0

\* whether json.loads(s) returns (it raises otherwise)
JsonLoads(s) ==
    LET e == JsonValueEnd(s, 1)
    IN  e # 0 /\ SkipSpace(s, e + 1) > Len(s)

\* lines 97-100: [err, text], err the exception raised, "" when none
CleanAttractionsText(attractions_text) ==
    IF PyContains(attractions_text, <<"j","s","o","n">>)
    THEN LET rest  == PySplit(attractions_text, <<"j","s","o","n">>).parts[2]
             block == PySplit(rest, <<>>)
         IN  IF block.err # "" THEN [err |-> block.err, text |-> <<>>]
             ELSE [err |-> "", text |-> PyStrip(block.parts[1])]
    ELSE IF PyContains(attractions_text, <<>>)
    THEN LET pieces == PySplit(attractions_text, <<>>)
         IN  IF pieces.err # "" THEN [err |-> pieces.err, text |-> <<>>]
             ELSE LET block == PySplit(pieces.parts[2], <<>>)
                  IN  IF block.err # "" THEN [err |-> block.err, text |-> <<>>]
                      ELSE [err |-> "", text |-> PyStrip(block.parts[1])]
    ELSE [err |-> "", text |-> attractions_text]

\* lines 108-121
FallbackAttractions(location) ==
    [kind |-> "fallback",
     value |-> << <<"T","o","p"," ","A","t","t","r","a","c","t","i","o","n"," ","1"," ","i","n"," ">> \o location, <<"T","o","p"," ","A","t","t","r","a","c","t","i","o","n"," ","2"," ","i","n"," ">> \o location >>]

\* get_attractions with the text handed to json.loads as it was received
get_attractions_uncleaned(location, raised, text) ==
    IF raised # "" THEN [kind |-> "error", value |-> "Error generating attractions: " \o raised]
    ELSE IF JsonLoads(text)
    THEN [kind |-> "parsed", value |-> text]
    ELSE FallbackAttractions(location)

\* lines 79-123; raised is the exception of self.model.generate_content, "" when it
\* returns a response with the text response_text
get_attractions(location, raised, text) ==
    IF raised # "" THEN [kind |-> "error", value |-> "Error generating attractions: " \o raised]
    ELSE LET cleaned == CleanAttractionsText(text)
         IN  IF cleaned.err # ""
             THEN [kind |-> "error", value |-> "Error generating attractions: " \o cleaned.err]
             ELSE IF JsonLoads(cleaned.text)
             THEN [kind |-> "parsed", value |-> cleaned.text]
             ELSE FallbackAttractions(location)

(***************************************************************************)
(* The attraction lookup: the generative service answers (or fails), and   *)
(* get_attractions turns the answer into the attractions of the location.  *)
(***************************************************************************)
\* pieces of text an answer of the service is made of
ResponseFragments == {
    <<"j","s","o","n">>,
    <<"[">>,
    <<"]">>,
    <<"1">>,
    <<",">>,
    <<"\n">>,
    <<"S","o","r","r","y">> }

Locations == { <<"P","a","r","i","s">>, <<"T","o","k","y","o">> }

InitAttractions ==
    /\ pc = "answer"
    /\ nfrag = 0
    /\ response_text = <<>>
    /\ attractions = <<>>
    /\ destinations \in {<<l>> : l \in Locations}
    /\ user_request = <<>>
    /\ duration = <<>>
    /\ itinerary = <<>>
    /\ preferred_currency = "USD"
    /\ include_budget = TRUE
    /\ itinerary_no_asterisks = <<>>
    /\ shown = <<>>
    /\ budget_once = <<>> /\ budget_twice = <<>>
    /\ Unstarted

\* the generative service writes the next piece of its answer
AnswerAppend ==
    /\ pc = "answer"
    /\ nfrag < MaxRespFrags
    /\ \E f \in ResponseFragments : response_text' = response_text \o f
    /\ nfrag' = nfrag + 1
    /\ UNCHANGED <<pc, itinerary, preferred_currency, include_budget,
                   itinerary_no_asterisks, shown, budget_once, budget_twice, user_request,
                   duration, destinations, attractions>>
    /\ UNCHANGED run_vars

\* generate_content returns and get_attractions runs to its return
GetAttractions ==
    /\ pc = "answer"
    /\ attractions' = get_attractions(destinations[1], "", response_text)
    /\ pc' = "returned"
    /\ UNCHANGED <<nfrag, itinerary, preferred_currency, include_budget,
                   itinerary_no_asterisks, shown, budget_once, budget_twice, user_request,
                   duration, destinations, response_text>>
    /\ UNCHANGED run_vars

\* generate_content raises instead of returning
ServiceRaises ==
    /\ pc = "answer"
    /\ nfrag = 0
    /\ attractions' = get_attractions(destinations[1], "service unavailable", response_text)
    /\ pc' = "raised"
    /\ UNCHANGED <<nfrag, itinerary, preferred_currency, include_budget,
                   itinerary_no_asterisks, shown, budget_once, budget_twice, user_request,
                   duration, destinations, response_text>>
    /\ UNCHANGED run_vars

NextAttractions == AnswerAppend \/ GetAttractions \/ ServiceRaises

SpecAttractions == InitAttractions /\ [][NextAttractions]_vars

(***************************************************************************)
(* itinerary_planner.py: get_weather.  The value it returns is a record:   *)
(* kind "str" with the message, or kind "dict" with the weather record.    *)
(***************************************************************************)
\* what requests.get can do: raise, or return a response with a status code and,
\* for 200, the payload of response.json()
WeatherAnswers == {
    [raises |-> <<>>, status_code |-> 200,
     data |-> [name |-> <<"P","a","r","i","s">>, country |-> <<"F","R">>, temp |-> <<"1","8",".","5">>,
               description |-> <<"c","l","e","a","r"," ","s","k","y">>]],
    [raises |-> <<>>, status_code |-> 404,
     data |-> [name |-> <<>>, country |-> <<>>, temp |-> <<>>, description |-> <<>>]],
    [raises |-> <<"C","o","n","n","e","c","t","i","o","n"," ","r","e","f","u","s","e","d">>, status_code |-> 0,
     data |-> [name |-> <<>>, country |-> <<>>, temp |-> <<>>, description |-> <<>>]] }

\* lines 28-75 with date_str = None, as both callers have it: sent counts the
\* requests.get calls made
get_weather(location, api_key, answer) ==
    IF api_key = <<>>
    THEN [sent |-> 0, kind |-> "str",
          value |-> <<"W","e","a","t","h","e","r"," ","d","a","t","a"," ","u","n","a","v","a","i","l","a","b","l","e"," ","-"," ","m","i","s","s","i","n","g"," ","A","P","I"," ","k","e","y">>]
    ELSE IF answer.raises # <<>>
    THEN [sent |-> 1, kind |-> "str",
          value |-> <<"E","r","r","o","r"," ","f","e","t","c","h","i","n","g"," ","w","e","a","t","h","e","r"," ","d","a","t","a",":"," ">> \o answer.raises]
    ELSE IF answer.status_code # 200
    THEN [sent |-> 1, kind |-> "str",
          value |-> <<"W","e","a","t","h","e","r"," ","d","a","t","a"," ","u","n","a","v","a","i","l","a","b","l","e"," ","f","o","r"," ">> \o location]
    ELSE [sent |-> 1, kind |-> "dict",
          value |-> [location |-> answer.data.name \o <<","," ">> \o answer.data.country,
                     date |-> <<"c","u","r","r","e","n","t">>,
                     temperature |-> answer.data.temp \o <<"Deg","C">>,
                     conditions |-> answer.data.description]]

(***************************************************************************)
(* One run of the page: app.py is executed from its first line, the form   *)
(* is filled, and with the button pressed the request is processed.        *)
(***************************************************************************)
\* os.getenv of a key: <<>> stands for a key that is unset or empty
KeyValues == { <<>>, <<"k">> }

\* the requests the form is submitted with
FormRequests == { <<>>, ParisRequest, TokyoRequest, <<"s","o","m","e","w","h","e","r","e"," ","w","a","r","m"," ","f","o","r"," ","2"," ","w","e","e","k","s">> }

\* what self.model.generate_content can do in get_attractions: raise ("" when it
\* does not), or return a response with this text
AttractionAnswers == {
    [raises |-> "", text |-> <<"[","]">>],
    [raises |-> "", text |-> <<"S","o","r","r","y">>],
    [raises |-> "service unavailable", text |-> <<>>] }

\* what self.model.generate_content can do in generate_itinerary
ItineraryAnswers == {
    [raises |-> <<>>, text |-> <<"#"," ","T","r","i","p","\n","*","*","D","a","y"," ","1","*","*","\n","#","#"," ","B","u","d","g","e","t","\n","T","o","t","a","l",":"," ","$","5","\n">>],
    [raises |-> <<>>, text |-> <<"D","a","y"," ","1","\n">>],
    [raises |-> <<"s","e","r","v","i","c","e"," ","u","n","a","v","a","i","l","a","b","l","e">>, text |-> <<>>] }

RECURSIVE PyJoin(_, _)
\* sep.join(parts)
PyJoin(sep, parts) ==
    IF parts = <<>> THEN <<>>
    ELSE IF Len(parts) = 1 THEN parts[1]
    ELSE parts[1] \o sep \o PyJoin(sep, Tail(parts))

\* one st.* call: the part of the page it belongs to and the text it shows
Shows(part, text) == [part |-> part, text |-> text]

InitRun ==
    /\ pc = "import"
    /\ google_api_key \in KeyValues
    /\ weather_api_key \in KeyValues
    /\ include_weather = TRUE /\ include_attractions = TRUE
    /\ weather_info = <<>> /\ requests_sent = 0
    /\ exc = <<>> /\ ui = <<>>
    /\ nfrag = 0
    /\ itinerary = <<>>
    /\ preferred_currency = "USD"
    /\ include_budget = TRUE
    /\ itinerary_no_asterisks = <<>>
    /\ shown = <<>>
    /\ Idle

\* app.py line 9 runs itinerary_planner.py lines 12-20: without the key the
\* ValueError of line 18 leaves the import, and with it the script
ImportPlanner ==
    /\ pc = "import"
    /\ IF google_api_key = <<>>
       THEN /\ exc' = <<"G","O","O","G","L","E","_","A","P","I","_","K","E","Y"," ","n","o","t"," ","f","o","u","n","d"," ","i","n"," ","e","n","v","i","r","o","n","m","e","n","t"," ","v","a","r","i","a","b","l","e","s">>
            /\ pc' = "crashed"
       ELSE /\ exc' = exc
            /\ pc' = "main"
    /\ UNCHANGED <<nfrag, itinerary, preferred_currency, include_budget,
                   itinerary_no_asterisks, shown, budget_once, budget_twice, user_request,
                   duration, destinations, response_text, attractions>>
    /\ UNCHANGED <<google_api_key, weather_api_key, include_weather, include_attractions,
                   weather_info, requests_sent, ui>>

\* lines 109-131
ShowHeader ==
    /\ pc = "main"
    /\ ui' = ui
             \o <<Shows("title", <<"Globe"," ","A","I"," ","T","r","a","v","e","l"," ","I","t","i","n","e","r","a","r","y"," ","P","l","a","n","n","e","r">>)>>
             \o (IF google_api_key = <<>>
                 THEN <<Shows("warning", <<"Warn"," ","G","O","O","G","L","E","_","A","P","I","_","K","E","Y"," ","n","o","t"," ","f","o","u","n","d"," ","i","n"," ","e","n","v","i","r","o","n","m","e","n","t"," ","v","a","r","i","a","b","l","e","s","."," ","T","h","e"," ","a","p","p","l","i","c","a","t","i","o","n"," ","w","o","n","'","t"," ","w","o","r","k"," ","w","i","t","h","o","u","t"," ","i","t",".">>)>>
                 ELSE <<>>)
             \o (IF weather_api_key = <<>>
                 THEN <<Shows("info", <<"Info"," ","O","P","E","N","W","E","A","T","H","E","R","M","A","P","_","A","P","I","_","K","E","Y"," ","n","o","t"," ","f","o","u","n","d","."," ","W","e","a","t","h","e","r"," ","i","n","f","o","r","m","a","t","i","o","n"," ","w","i","l","l"," ","b","e"," ","l","i","m","i","t","e","d",".">>)>>
                 ELSE <<>>)
    /\ pc' = "form"
    /\ UNCHANGED <<nfrag, itinerary, preferred_currency, include_budget,
                   itinerary_no_asterisks, shown, budget_once, budget_twice, user_request,
                   duration, destinations, response_text, attractions>>
    /\ UNCHANGED <<google_api_key, weather_api_key, include_weather, include_attractions,
                   weather_info, requests_sent, exc>>

\* lines 133-190: the form as it stands in this run, and whether the button was
\* pressed
SubmitForm ==
    /\ pc = "form"
    /\ \E r \in FormRequests, c \in Currencies, w \in BOOLEAN, a \in BOOLEAN,
          b \in BOOLEAN, generate_button \in BOOLEAN :
          /\ user_request' = r
          /\ preferred_currency' = c
          /\ include_weather' = w
          /\ include_attractions' = a
          /\ include_budget' = b
          /\ pc' = IF generate_button /\ r # <<>> THEN "generate" ELSE "footer"
    /\ UNCHANGED <<nfrag, itinerary, itinerary_no_asterisks, shown, budget_once,
                   budget_twice, duration, destinations, response_text, attractions>>
    /\ UNCHANGED <<google_api_key, weather_api_key, weather_info, requests_sent, exc, ui>>

\* line 194 with generate_itinerary (itinerary_planner.py lines 125-173), and line
\* 197 when it returns: the weather and the attractions of lines 136-137 go into
\* the prompt, the exception of line 172 goes to the except clause of line 280
GenerateItinerary ==
    /\ pc = "generate"
    /\ \E wa \in WeatherAnswers, aa \in AttractionAnswers, ia \in ItineraryAnswers :
          LET dests               == extract_destinations(user_request)
              primary_destination == IF dests # <<>> THEN dests[1] ELSE <<"U","n","k","n","o","w","n">>
              weather             == get_weather(primary_destination, weather_api_key, wa)
              prompt_attractions  == get_attractions(primary_destination, aa.raises, aa.text)
          IN  /\ requests_sent' = requests_sent + weather.sent
              /\ response_text' = aa.text
              /\ IF ia.raises # <<>>
                 THEN /\ exc' = ia.raises
                      /\ pc' = "except"
                      /\ UNCHANGED <<itinerary, itinerary_no_asterisks>>
                 ELSE /\ itinerary' = ia.text
                      /\ itinerary_no_asterisks' = remove_asterisks(ia.text)
                      /\ pc' = "success"
                      /\ exc' = exc
    /\ UNCHANGED <<nfrag, preferred_currency, include_budget, shown, budget_once,
                   budget_twice, user_request, duration, destinations, attractions>>
    /\ UNCHANGED <<google_api_key, weather_api_key, include_weather, include_attractions,
                   weather_info, ui>>

\* line 200
ShowSuccess ==
    /\ pc = "success"
    /\ ui' = Append(ui, Shows("success", <<"Ok"," ","Y","o","u","r"," ","i","t","i","n","e","r","a","r","y"," ","i","s"," ","r","e","a","d","y","!">>))
    /\ pc' = "summary"
    /\ UNCHANGED <<nfrag, itinerary, preferred_currency, include_budget,
                   itinerary_no_asterisks, shown, budget_once, budget_twice, user_request,
                   duration, destinations, response_text, attractions>>
    /\ UNCHANGED <<google_api_key, weather_api_key, include_weather, include_attractions,
                   weather_info, requests_sent, exc>>

\* lines 203-215, without the Dates line of 214; the currency code is one element
\* of the text
ShowSummary ==
    /\ pc = "summary"
    /\ LET dests == extract_destinations(user_request)
           days  == extract_duration(user_request)
       IN  /\ destinations' = dests
           /\ duration' = days
           /\ ui' = ui \o <<
                 Shows("summary", <<"T","r","i","p"," ","S","u","m","m","a","r","y">>),
                 Shows("summary", <<"*","*","D","e","s","t","i","n","a","t","i","o","n","s",":","*","*"," ">>
                     \o (IF dests # <<>> THEN PyJoin(<<","," ">>, dests) ELSE <<"N","o","t"," ","s","p","e","c","i","f","i","e","d">>)),
                 Shows("summary", <<"*","*","D","u","r","a","t","i","o","n",":","*","*"," ">>
                     \o (IF days # <<>> /\ days[1] # 0 THEN IntDigits(days[1])
                         ELSE <<"N","o","t"," ","s","p","e","c","i","f","i","e","d">>)
                     \o <<" ","d","a","y","s">>),
                 Shows("summary", <<"*","*","C","u","r","r","e","n","c","y",":","*","*"," ">> \o <<preferred_currency>>
                     \o <<" ","(">> \o currency_symbols[preferred_currency] \o <<")">>) >>
    /\ pc' = "weather"
    /\ UNCHANGED <<nfrag, itinerary, preferred_currency, include_budget,
                   itinerary_no_asterisks, shown, budget_once, budget_twice, user_request,
                   response_text, attractions>>
    /\ UNCHANGED <<google_api_key, weather_api_key, include_weather, include_attractions,
                   weather_info, requests_sent, exc>>

\* lines 217-229
ShowWeather ==
    /\ pc = "weather"
    /\ IF include_weather /\ destinations # <<>>
       THEN \E wa \in WeatherAnswers :
               LET weather == get_weather(destinations[1], weather_api_key, wa)
               IN  /\ weather_info' = [kind |-> weather.kind, value |-> weather.value]
                   /\ requests_sent' = requests_sent + weather.sent
                   /\ ui' = ui \o <<
                         Shows("weather", <<"W","e","a","t","h","e","r"," ","I","n","f","o">>),
                         Shows("weather",
                               IF weather.kind = "dict"
                               THEN <<"*","*","C","u","r","r","e","n","t"," ","w","e","a","t","h","e","r"," ","i","n"," ">> \o weather.value.location
                                    \o <<"*","*",":"," ">> \o weather.value.temperature \o <<","," ">>
                                    \o weather.value.conditions
                               ELSE weather.value) >>
       ELSE UNCHANGED <<weather_info, requests_sent, ui>>
    /\ pc' = "itinerary"
    /\ UNCHANGED <<nfrag, itinerary, preferred_currency, include_budget,
                   itinerary_no_asterisks, shown, budget_once, budget_twice, user_request,
                   duration, destinations, response_text, attractions>>
    /\ UNCHANGED <<google_api_key, weather_api_key, include_weather, include_attractions,
                   exc>>

RECURSIVE ShowsAll(_, _)
\* one st.markdown call for each of the texts
ShowsAll(part, texts) ==
    IF texts = <<>> THEN <<>>
    ELSE <<Shows(part, Head(texts))>> \o ShowsAll(part, Tail(texts))

\* lines 231-254
ShowItineraryText ==
    /\ pc = "itinerary"
    /\ LET parts == DisplayParts(itinerary_no_asterisks, preferred_currency, include_budget)
       IN  /\ shown' = parts
           /\ ui' = ui \o <<Shows("itinerary", <<"Y","o","u","r"," ","I","t","i","n","e","r","a","r","y">>)>>
                       \o ShowsAll("itinerary", parts)
    /\ pc' = "attractions"
    /\ UNCHANGED <<nfrag, itinerary, preferred_currency, include_budget,
                   itinerary_no_asterisks, budget_once, budget_twice, user_request,
                   duration, destinations, response_text, attractions>>
    /\ UNCHANGED <<google_api_key, weather_api_key, include_weather, include_attractions,
                   weather_info, requests_sent, exc>>

\* lines 260-270 for the value get_attractions returned: [raises, texts], raises the
\* class of the exception a line raises (<<>> when none does), texts what
\* st.markdown has shown by then.  A parsed value holds numbers and lists only:
\* st.columns(0) raises for the empty list, attraction['name'] for any element.
AttractionTexts(found) ==
    IF found.kind = "error"
    THEN [raises |-> <<>>, texts |-> <<found.value>>]
    ELSE IF found.kind = "fallback"
    THEN [raises |-> <<>>,
          texts |-> <<<<"*","*">> \o found.value[1] \o <<"*","*">>, <<"*","*">> \o found.value[2] \o <<"*","*">>>>]
    ELSE LET a == SkipSpace(found.value, 1)
         IN  IF found.value[a] # "["
             THEN [raises |-> <<>>, texts |-> <<found.value>>]
             ELSE IF found.value[SkipSpace(found.value, a + 1)] = "]"
             THEN [raises |-> <<"S","t","r","e","a","m","l","i","t","A","P","I","E","x","c","e","p","t","i","o","n">>, texts |-> <<>>]
             ELSE [raises |-> <<"T","y","p","e","E","r","r","o","r">>, texts |-> <<>>]

\* lines 256-270
ShowAttractions ==
    /\ pc = "attractions"
    /\ IF include_attractions /\ destinations # <<>>
       THEN \E aa \in AttractionAnswers :
               LET found == get_attractions(destinations[1], aa.raises, aa.text)
                   lines == AttractionTexts(found)
               IN  /\ response_text' = aa.text
                   /\ attractions' = found
                   /\ ui' = ui \o <<Shows("attractions", <<"T","o","p"," ","A","t","t","r","a","c","t","i","o","n","s">>)>>
                               \o ShowsAll("attractions", lines.texts)
                   /\ exc' = lines.raises
                   /\ pc' = IF lines.raises # <<>> THEN "except" ELSE "download"
       ELSE /\ pc' = "download"
            /\ UNCHANGED <<response_text, attractions, ui, exc>>
    /\ UNCHANGED <<nfrag, itinerary, preferred_currency, include_budget,
                   itinerary_no_asterisks, shown, budget_once, budget_twice, user_request,
                   duration, destinations>>
    /\ UNCHANGED <<google_api_key, weather_api_key, include_weather, include_attractions,
                   weather_info, requests_sent>>

\* lines 272-278
ShowDownload ==
    /\ pc = "download"
    /\ ui' = Append(ui, Shows("download", itinerary_no_asterisks))
    /\ pc' = "footer"
    /\ UNCHANGED <<nfrag, itinerary, preferred_currency, include_budget,
                   itinerary_no_asterisks, shown, budget_once, budget_twice, user_request,
                   duration, destinations, response_text, attractions>>
    /\ UNCHANGED <<google_api_key, weather_api_key, include_weather, include_attractions,
                   weather_info, requests_sent, exc>>

\* lines 280-282
ReportError ==
    /\ pc = "except"
    /\ ui' = ui \o <<Shows("error", <<"A","n"," ","e","r","r","o","r"," ","o","c","c","u","r","r","e","d",":"," ">> \o exc),
                     Shows("hint", <<"P","l","e","a","s","e"," ","c","h","e","c","k"," ","y","o","u","r"," ","A","P","I"," ","k","e","y","s"," ","a","n","d"," ","t","r","y"," ","a","g","a","i","n",".">>)>>
    /\ exc' = <<>>
    /\ pc' = "footer"
    /\ UNCHANGED <<nfrag, itinerary, preferred_currency, include_budget,
                   itinerary_no_asterisks, shown, budget_once, budget_twice, user_request,
                   duration, destinations, response_text, attractions>>
    /\ UNCHANGED <<google_api_key, weather_api_key, include_weather, include_attractions,
                   weather_info, requests_sent>>

\* lines 284-296
ShowFooter ==
    /\ pc = "footer"
    /\ ui' = Append(ui, Shows("footer", <<"*","P","o","w","e","r","e","d"," ","b","y"," ","G","e","m","i","n","i"," ","A","I"," ","a","n","d"," ","O","p","e","n","W","e","a","t","h","e","r","M","a","p","*">>))
    /\ pc' = "done"
    /\ UNCHANGED <<nfrag, itinerary, preferred_currency, include_budget,
                   itinerary_no_asterisks, shown, budget_once, budget_twice, user_request,
                   duration, destinations, response_text, attractions>>
    /\ UNCHANGED <<google_api_key, weather_api_key, include_weather, include_attractions,
                   weather_info, requests_sent, exc>>

NextRun ==
    \/ ImportPlanner \/ ShowHeader \/ SubmitForm \/ GenerateItinerary \/ ShowSuccess
    \/ ShowSummary \/ ShowWeather \/ ShowItineraryText \/ ShowAttractions \/ ShowDownload
    \/ ReportError \/ ShowFooter

SpecRun == InitRun /\ [][NextRun]_vars

(***************************************************************************)
(* The notions the properties below use, stated on the text itself and not *)
(* through the operators of the code.                                      *)
(***************************************************************************)
IsPrefixOf(p, s) == Len(p) <= Len(s) /\ SubSeq(s, 1, Len(p)) = p

IsSuffixOf(p, s) == Len(p) <= Len(s) /\ SubSeq(s, Len(s) - Len(p) + 1, Len(s)) = p

RECURSIVE Concat(_)
\* the texts of a sequence, joined
Concat(parts) == IF parts = <<>> THEN <<>> ELSE Head(parts) \o Concat(Tail(parts))

\* the positions where the lines of doc begin (the position after the last
\* character when doc ends with a line break)
LineStarts(doc) == {1} \cup {j + 1 : j \in {k \in 1..Len(doc) : doc[k] = "\n"}}

\* the line of doc that begins at p, without its line break
LineAt(doc, p) ==
    LET breaks == {k \in p..Len(doc) : doc[k] = "\n"}
    IN  SubSeq(doc, p, IF breaks = {} THEN Len(doc) ELSE Least(breaks) - 1)

\* a line that holds the word budget, in any case, and the heading marker
HoldsBudgetAndMarker(line) ==
    /\ \E k \in 1..Len(line) : line[k] = "#"
    /\ \E k \in 1..Len(line) : MatchesAt(PyLower(line), <<"b","u","d","g","e","t">>, k)

BudgetHeadingStarts(doc) == {p \in LineStarts(doc) : HoldsBudgetAndMarker(LineAt(doc, p))}

HasBudgetHeading(doc) == BudgetHeadingStarts(doc) # {}

\* where the budget heading line begins
BudgetStart(doc) == Least(BudgetHeadingStarts(doc))

\* the later lines that begin with the heading marker
LaterHeadings(doc) ==
    {q \in LineStarts(doc) : q > BudgetStart(doc) /\ q <= Len(doc) /\ doc[q] = "#"}

\* where the budget span ends: the first later heading line, or the end of doc
BudgetEnd(doc) ==
    IF LaterHeadings(doc) = {} THEN Len(doc) + 1 ELSE Least(LaterHeadings(doc))

\* the lines of doc from position a up to position b - 1, each with a line break
\* (b is where a line begins, or the position after the last character)
LinesBetween(doc, a, b) ==
    IF b <= Len(doc) THEN SubSeq(doc, a, b - 1) ELSE SubSeq(doc, a, b - 1) \o <<"\n">>

\* number of places where pat stands in s
CountOf(s, pat) == Cardinality({k \in 1..Len(s) : MatchesAt(s, pat, k)})

RECURSIVE CommaGroupsEnd(_, _)
\* last character of the groups  ,digits  that follow position e
CommaGroupsEnd(s, e) ==
    IF e + 2 <= Len(s) /\ s[e + 1] = "," /\ IsDigit(s[e + 2])
    THEN CommaGroupsEnd(s, SkipWhile(s, DigitChars, e + 2))
    ELSE e

\* last character of a dollar amount $digits[,digits]*[.digits] that begins at i,
\* 0 when none does
WholeAmountEndAt(s, i) ==
    IF ~(i < Len(s) /\ s[i] = "$" /\ IsDigit(s[i + 1])) THEN 0
    ELSE LET e == CommaGroupsEnd(s, SkipWhile(s, DigitChars, i + 1))
         IN  IF e + 2 <= Len(s) /\ s[e + 1] = "." /\ IsDigit(s[e + 2])
             THEN SkipWhile(s, DigitChars, e + 2) ELSE e

RECURSIVE EachAmountOnce(_, _, _)
\* s from position i on, each dollar amount followed by one parenthetical that
\* holds its converted value
EachAmountOnce(s, i, currency) ==
    LET at == {j \in i..Len(s) : WholeAmountEndAt(s, j) # 0}
    IN  IF at = {} THEN SubSeq(s, i, Len(s))
        ELSE LET b == Least(at)
                 e == WholeAmountEndAt(s, b)
                 digits == SelectSeq(SubSeq(s, b + 1, e), LAMBDA ch : ch # ",")
             IN  SubSeq(s, i, e) \o <<" ", "(">>
                 \o convert_currency(ParseAmount(digits), currency) \o <<")">>
                 \o EachAmountOnce(s, e + 1, currency)

\* a phrase  <digit><whitespace>+<unit>  whose digit stands at i
PhraseAt(s, unit, i) ==
    /\ IsDigit(s[i])
    /\ \E w \in (i + 1)..Len(s) :
          /\ \A k \in (i + 1)..w : IsSpace(s[k])
          /\ MatchesAt(PyLower(s), unit, w + 1)

HasPhrase(s, unit) == \E i \in 1..Len(s) : PhraseAt(s, unit, i)

\* the places where "2 weeks" stands with no digit directly before it and no week
\* phrase before it
FirstTwoWeeks(s) ==
    {p \in 1..Len(s) :
        /\ MatchesAt(s, <<"2", " ", "w", "e", "e", "k", "s">>, p)
        /\ (p = 1 \/ ~IsDigit(s[p - 1]))
        /\ \A i \in 1..(p - 1) : ~PhraseAt(s, <<"w", "e", "e", "k">>, i)}

\* the number of the first phrase of the unit: the digits that end at its digit
FirstNumber(s, unit) ==
    LET i == Least({k \in 1..Len(s) : PhraseAt(s, unit, k)})
        a == Least({j \in 1..i : \A k \in j..i : IsDigit(s[k])})
    IN  PyInt(SubSeq(s, a, i))

\* where the first phrase of the unit ends its number
FirstPhrase(s, unit) == Least({k \in 1..Len(s) : PhraseAt(s, unit, k)})

Elements(seq) == {seq[k] : k \in 1..Len(seq)}

\* the places of the page that belong to the part
PlacesOf(part) == {k \in 1..Len(ui) : ui[k].part = part}

\* the parts of the page that are results of a request
ResultParts == {"success", "summary", "weather", "itinerary", "attractions", "download"}

(***************************************************************************)
(* Properties.                                                             *)
(***************************************************************************)
\* C1: when a budget heading line is found and the currency is not USD, the parts
\* displayed, joined in order, are the stripped document with the budget span
\* replaced by its annotated version: the text before the heading line, the
\* annotated span, the text from the first later heading line on.
C1_PartsReassemble ==
    (/\ pc = "shown"
     /\ preferred_currency # "USD"
     /\ include_budget
     /\ HasBudgetHeading(itinerary_no_asterisks))
    => LET doc == itinerary_no_asterisks
           a   == BudgetStart(doc)
           b   == BudgetEnd(doc)
       IN  Concat(shown) = SubSeq(doc, 1, a - 1)
                             \o Annotate(SubSeq(doc, a, b - 1), preferred_currency)
                             \o SubSeq(doc, b, Len(doc))

\* C2: for a currency other than USD the annotated span is the span with each
\* dollar amount $digits[,digits]*[.digits] followed, once, by its converted value
\* in parentheses.
C2_EachAmountAnnotatedOnce ==
    (pc = "once" /\ preferred_currency # "USD")
    => LET span == LocateBudgetSpan(itinerary).budget_section
       IN  budget_once = EachAmountOnce(span, 1, preferred_currency)

\* C3: annotating an annotated span again adds no parenthetical: the result still
\* holds one parenthetical for each dollar amount of the first pass.
C3_NoDoubleWrap ==
    (pc = "twice" /\ preferred_currency # "USD")
    => CountOf(budget_twice, <<" ", "(">>) = CountOf(budget_once, <<" ", "(">>)

\* C4: when a later heading line follows the budget heading and the currency is not
\* USD, the text before the budget heading and the text from the later heading line
\* on are displayed as they stand in the stripped document.
C4_OnlyBudgetSpanChanges ==
    (/\ pc = "shown"
     /\ preferred_currency # "USD"
     /\ include_budget
     /\ HasBudgetHeading(itinerary_no_asterisks)
     /\ LaterHeadings(itinerary_no_asterisks) # {})
    => LET doc == itinerary_no_asterisks
       IN  /\ IsPrefixOf(SubSeq(doc, 1, BudgetStart(doc) - 1), Concat(shown))
           /\ IsSuffixOf(SubSeq(doc, BudgetEnd(doc), Len(doc)), Concat(shown))

\* C5: without a line that holds both "budget" and the heading marker the located
\* span is empty; with one, the span is the first such line and the lines after it
\* up to, and without, the first later line that begins with the marker (or up to
\* the end), the emphasis markup of a draft that still holds some removed.
C5_LocateBudgetSpan ==
    pc = "located"
    => IF ~HasBudgetHeading(itinerary) THEN budget_once = <<>>
       ELSE preferred_currency = "USD"
            => LET lines == LinesBetween(itinerary, BudgetStart(itinerary),
                                         BudgetEnd(itinerary))
               IN  /\ CountOf(itinerary, <<"*", "*">>) = 0 => budget_once = lines
                   /\ budget_once = remove_asterisks(lines)

\* a budget heading with a body and a later heading, located
C5_Witness ==
    /\ pc = "located"
    /\ preferred_currency = "USD"
    /\ HasBudgetHeading(itinerary)
    /\ LaterHeadings(itinerary) # {}
    /\ CountOf(budget_once, <<"\n">>) >= 2
    /\ Len(budget_once) < Len(itinerary)

\* C6 as stated: whenever the request holds "2 weeks" the duration is 14.
C6_TwoWeeksAlways14 ==
    (pc = "duration" /\ CountOf(user_request, <<"2", " ", "w", "e", "e", "k", "s">>) > 0)
    => duration = <<14>>

\* C6 amended: the duration is 14 whenever the request holds "2 weeks" with no
\* digit directly before that 2, no <N> day(s) phrase anywhere and no <N> week(s)
\* phrase before it.
C6_TwoWeeksFirstWeekPhrase ==
    (/\ pc = "duration"
     /\ FirstTwoWeeks(user_request) # {}
     /\ ~HasPhrase(user_request, <<"d", "a", "y">>))
    => duration = <<14>>

\* "2 weeks" after a night phrase and other text
C6_Witness ==
    /\ pc = "duration"
    /\ FirstTwoWeeks(user_request) # {}
    /\ ~HasPhrase(user_request, <<"d", "a", "y">>)
    /\ HasPhrase(user_request, <<"n", "i", "g", "h", "t">>)
    /\ 1 \notin FirstTwoWeeks(user_request)
    /\ duration = <<14>>

\* C7: a request that gives its length as 7-day, and holds no other digit, has the
\* duration 7.
C7_HyphenatedDay ==
    (/\ pc = "duration"
     /\ CountOf(user_request, <<"7", "-", "d", "a", "y">>) = 1
     /\ Cardinality({k \in 1..Len(user_request) : IsDigit(user_request[k])}) = 1)
    => duration = <<7>>

\* C8: "Paris" is one of the destinations of every request that holds the Paris
\* example, and "Tokyo" one of those of the Tokyo example.
C8_NamedPlaceIsElement ==
    pc \in {"destinations", "duration"}
    => /\ CountOf(user_request, ParisRequest) > 0
            => <<"P", "a", "r", "i", "s">> \in Elements(destinations)
       /\ user_request = TokyoRequest
            => <<"T", "o", "k", "y", "o">> \in Elements(destinations)

\* C9: stripping the stripped itinerary changes nothing, and the stripped
\* itinerary holds no ** .
C9_StripIdempotent ==
    pc \in {"stripped", "shown"}
    => /\ remove_asterisks(itinerary_no_asterisks) = itinerary_no_asterisks
       /\ CountOf(itinerary_no_asterisks, <<"*", "*">>) = 0

\* a draft with a run of three or more asterisks, stripped
C9_Witness ==
    /\ pc = "stripped"
    /\ CountOf(itinerary, <<"*", "*", "*">>) > 0
    /\ CountOf(itinerary_no_asterisks, <<"*">>) > 0
    /\ itinerary_no_asterisks # itinerary

\* C10: when the service returns a text, a text that parses as a list comes back
\* parsed and any other text gives the two placeholder attractions, never an error.
C10_FallbackNotError ==
    pc = "returned"
    => IF JsonLoads(response_text)
       THEN attractions.kind = "parsed"
       ELSE CountOf(response_text, <<"j", "s", "o", "n">>) = 0
            => /\ attractions.kind = "fallback"
               /\ attractions = FallbackAttractions(destinations[1])

\* C11: no missing credential and no failing service ends the run with an
\* exception: the script is never left by one, every exception caught has been
\* reported when the page is complete, a missing generative-service key shows as
\* the warning once the header is drawn, and a missing weather key shows as the
\* weather-unavailable message with no request sent to the weather service.
C11_NoExceptionEscapes ==
    /\ pc # "crashed"
    /\ (pc = "done" => exc = <<>>)
    /\ (google_api_key = <<>> /\ pc \notin {"import", "main"}) => PlacesOf("warning") # {}
    /\ weather_api_key = <<>> =>
          /\ requests_sent = 0
          /\ weather_info # <<>> =>
                /\ weather_info.kind = "str"
                /\ weather_info.value = <<"W","e","a","t","h","e","r"," ","d","a","t","a"," ","u","n","a","v","a","i","l","a","b","l","e"," ","-"," ","m","i","s","s","i","n","g"," ","A","P","I"," ","k","e","y">>
                /\ \E k \in PlacesOf("weather") : ui[k].text = weather_info.value

\* C12: the duration is the number of the first day phrase when the request holds
\* a day phrase, wherever the other phrases stand; seven times the number of the
\* first week phrase when it holds a week phrase and no day phrase; the number of
\* the first night phrase when it holds a night phrase and neither of the others;
\* and None, not 0, when it holds none of the three.
C12_DayWeekNightOrder ==
    pc = "duration" =>
       duration =
          IF HasPhrase(user_request, <<"d","a","y">>)
          THEN <<FirstNumber(user_request, <<"d","a","y">>)>>
          ELSE IF HasPhrase(user_request, <<"w","e","e","k">>)
          THEN <<7 * FirstNumber(user_request, <<"w","e","e","k">>)>>
          ELSE IF HasPhrase(user_request, <<"n","i","g","h","t">>)
          THEN <<FirstNumber(user_request, <<"n","i","g","h","t">>)>>
          ELSE <<>>

\* a night phrase, then a week phrase, then a day phrase with another number: the
\* duration is the number of the day phrase
C12_Witness ==
    /\ pc = "duration"
    /\ HasPhrase(user_request, <<"n","i","g","h","t">>)
    /\ HasPhrase(user_request, <<"w","e","e","k">>)
    /\ HasPhrase(user_request, <<"d","a","y">>)
    /\ FirstPhrase(user_request, <<"n","i","g","h","t">>) < FirstPhrase(user_request, <<"w","e","e","k">>)
    /\ FirstPhrase(user_request, <<"w","e","e","k">>) < FirstPhrase(user_request, <<"d","a","y">>)
    /\ FirstNumber(user_request, <<"n","i","g","h","t">>) # FirstNumber(user_request, <<"d","a","y">>)
    /\ duration = <<FirstNumber(user_request, <<"d","a","y">>)>>

\* the page holds no result of the request
NoResultShown == \A part \in ResultParts : PlacesOf(part) = {}

\* the page holds the error message once, with the exception's message, directly
\* followed by the hint, and no result of the request before it
ErrorShownOnce ==
    /\ Cardinality(PlacesOf("error")) = 1
    /\ Cardinality(PlacesOf("hint")) = 1
    /\ \A k \in PlacesOf("error") :
          /\ IsPrefixOf(<<"A","n"," ","e","r","r","o","r"," ","o","c","c","u","r","r","e","d",":"," ">>, ui[k].text)
          /\ k + 1 \in PlacesOf("hint")
          /\ ui[k + 1].text = <<"P","l","e","a","s","e"," ","c","h","e","c","k"," ","y","o","u","r"," ","A","P","I"," ","k","e","y","s"," ","a","n","d"," ","t","r","y"," ","a","g","a","i","n",".">>
          /\ \A j \in 1..(k - 1) : ui[j].part \notin ResultParts

====
